---- MODULE Spec2Model ----
(***************************************************************************)
(* Model of app/server.js: an Express application with a telemetry        *)
(* middleware (prom-client counters and histogram, a log write stream),   *)
(* four routes with manual OpenTelemetry spans, run by Node's single      *)
(* threaded event loop.  A callback runs to completion and is one action; *)
(* the finish callback is two steps, with `running` naming the request    *)
(* whose callback holds the thread in between (0 when the loop is idle).  *)
(***************************************************************************)
EXTENDS Integers, Sequences, FiniteSets, TLC

\* ---------------------------------------------------------------- bounds
MaxReq == 2          \* requests the environment sends
SlowMs == 7          \* a measured duration in ms, other than 0

\* The clock is read at the start of a request and when it finishes: delta,
\* the difference of the two readings, is any duration >= 0.
Durations == {0, SlowMs}

Reqs == 1..MaxReq

\* ------------------------------------------------------ inbound requests
\* What a client can send: method, path, and whether it carries a JSON body
\* that does not parse.
Inbound ==
    { [method |-> "GET", path |-> p, badBody |-> FALSE] :
          p \in {"/", "/work", "/error", "/error/", "/metrics", "/nope"} }
    \cup { [method |-> "OPTIONS", path |-> "/error", badBody |-> FALSE],
           [method |-> "POST", path |-> "/", badBody |-> TRUE] }

NoReq == [method |-> "", path |-> "", badBody |-> FALSE]

\* app.get(...) registrations: the route patterns, all for GET.
Routes == {"/", "/work", "/error", "/metrics"}

SpanRoutes == {"/", "/work", "/error"}

VARIABLES
    alive,          \* the process has not terminated
    running,        \* request whose callback holds the thread, 0 = idle
    req,            \* req[r]: the inbound request (method, path, body)
    pc,             \* pc[r]: position of request r in its pipeline
    res,            \* res[r]: statusCode, number of responses sent, finished
    reqRoute,       \* req.route?.path, "" while undefined
    listener,       \* res.on('finish') registered for r
    local,          \* the finish callback's locals: delta, route
    span,           \* span[r]: the route's span
    httpRequests,   \* app_http_requests_total: labels -> count
    httpDuration,   \* app_http_request_duration_seconds: labels -> series
    successRequests,\* app_http_success_total: route -> count
    errorRequests,  \* app_http_error_total: route -> count
    snap,           \* snap[r]: what register.metrics() returned to r
    logStream,      \* chunks written to the stream, not yet in the file
    logFile,        \* app.log, a sequence of tokens
    calls,          \* calls[r]: per request, how often each sink was called
    sdk,            \* the NodeSDK: unloaded, starting, started, failed
    listening,      \* app.listen has been called
    sigterm,        \* SIGTERM: none, shutting (handler awaits), exited
    shutdown,       \* what sdk.shutdown()'s promise does, once called
    console         \* messages written by console.log / console.error

vars == << alive, running, req, pc, res, reqRoute, listener, local, span,
           httpRequests, httpDuration, successRequests, errorRequests, snap,
           logStream, logFile, calls, sdk, listening, sigterm,
           shutdown, console >>

registry == << httpRequests, httpDuration, successRequests, errorRequests >>
sink == << logStream, logFile >>
life == << sdk, listening, sigterm, shutdown, console >>

\* ------------------------------------------------------------------ spans
NoSpan == [started |-> 0, code |-> "UNSET", message |-> "", ended |-> 0,
           endCode |-> "UNSET"]

\* tracer.startActiveSpan(name, fn)
startSpan(s) == [s EXCEPT !.started = @ + 1]

\* span.setStatus({code, message}); ignored by the SDK once the span ended
setStatus(s, code, message) ==
    IF s.ended > 0 THEN s ELSE [s EXCEPT !.code = code, !.message = message]

\* span.end(): counts the call, the first one freezes the status
end(s) ==
    [s EXCEPT !.ended = @ + 1,
              !.endCode = IF s.ended = 0 THEN s.code ELSE @]

\* -------------------------------------------------------------- responses
NoRes == [statusCode |-> 200, sent |-> 0, finished |-> FALSE]

\* res.status(code).json(body) / res.json(body) / res.end(body)
send(rs, code) == [rs EXCEPT !.statusCode = code, !.sent = @ + 1]

\* ---------------------------------------------------------------- metrics
\* A labelled instrument with no series yet.
EmptyMap == [x \in {} |-> 0]

Put(f, k, v) == [x \in DOMAIN f \cup {k} |-> IF x = k THEN v ELSE f[x]]

\* inc with a fault: the series is created afresh on every call.
incRecreates(counter, labels) == Put(counter, labels, 1)

\* Counter.inc(labels): an unseen label set starts a series at 0
inc(counter, labels) ==
    Put(counter, labels, (IF labels \in DOMAIN counter THEN counter[labels] ELSE 0) + 1)

\* buckets: [0.005, 0.01, 0.025, 0.05, 0.1, 0.25, 0.5, 1, 2.5, 5, 10] s, in ms
Buckets == << 5, 10, 25, 50, 100, 250, 500, 1000, 2500, 5000, 10000 >>

NoSeries == [buckets |-> [i \in 1..Len(Buckets) |-> 0], sum |-> 0, count |-> 0]

\* Histogram.observe(labels, value): cumulative bucket counts, sum and count
observe(hist, labels, value) ==
    LET s == IF labels \in DOMAIN hist THEN hist[labels] ELSE NoSeries
    IN  Put(hist, labels,
            [buckets |-> [i \in 1..Len(Buckets) |->
                         s.buckets[i] + (IF value <= Buckets[i] THEN 1 ELSE 0)],
             sum |-> s.sum + value,
             count |-> s.count + 1])

\* IsSuccess with a fault: no upper limit on the status code.
IsSuccessNoUpperLimit(code) == code >= 200

\* 200 <= statusCode < 400
IsSuccess(code) == code >= 200 /\ code < 400

\* RouteLabel with a fault: the raw path is preferred to the pattern.
RouteLabelPrefersPath(route, path) ==
    IF path # "" THEN path ELSE IF route # "" THEN route ELSE "unknown"

\* req.route?.path || req.path || 'unknown'
RouteLabel(route, path) ==
    IF route # "" THEN route ELSE IF path # "" THEN path ELSE "unknown"

\* { method, route, status_code: String(res.statusCode) }
Labels(method, route, code) ==
    [method |-> method, route |-> route, status_code |-> ToString(code)]

\* { method, route, status, duration_s }
LogEntry(method, route, code, delta) ==
    [method |-> method, route |-> route, status |-> code, duration_s |-> delta]

NoSnap == [taken |-> FALSE, requests |-> EmptyMap, duration |-> EmptyMap,
           success |-> EmptyMap, error |-> EmptyMap]

\* ---------------------------------------------------------------- log sink
NoEntry == LogEntry("", "", 0, 0)

Tok(k, entry) == [k |-> k, entry |-> entry]

\* `${new Date().toISOString()} ${JSON.stringify(message)}\n`: a timestamp,
\* the record's JSON text, a newline
Line(message) ==
    << Tok("ts", NoEntry), Tok("json", message), Tok("nl", NoEntry) >>

\* logToFile with a fault: timestamp, record and newline in three writes.
logToFileInPieces(stream, message) ==
    stream \o << << Tok("ts", NoEntry) >>, << Tok("json", message) >>,
                 << Tok("nl", NoEntry) >> >>

\* logToFile(message): one logStream.write of one chunk
logToFile(stream, message) == Append(stream, Line(message))

NoCalls == [inc |-> 0, observe |-> 0, success |-> 0, error |-> 0, log |-> 0]

Init ==
    /\ alive = TRUE
    /\ running = 0
    /\ req = [r \in Reqs |-> NoReq]
    /\ pc = [r \in Reqs |-> "new"]
    /\ res = [r \in Reqs |-> NoRes]
    /\ reqRoute = [r \in Reqs |-> ""]
    /\ listener = [r \in Reqs |-> FALSE]
    /\ local = [r \in Reqs |-> [delta |-> 0, route |-> ""]]
    /\ span = [r \in Reqs |-> NoSpan]
    /\ httpRequests = EmptyMap
    /\ httpDuration = EmptyMap
    /\ successRequests = EmptyMap
    /\ errorRequests = EmptyMap
    /\ snap = [r \in Reqs |-> NoSnap]
    /\ logStream = << >>
    /\ logFile = << >>
    /\ calls = [r \in Reqs |-> NoCalls]
    /\ sdk = "starting"
    /\ listening = TRUE
    /\ sigterm = "none"
    /\ shutdown = "uncalled"
    /\ console = {}

\* ------------------------------------------------------------ environment
\* A client sends a request (requests are numbered in their order of arrival).
Arrive(r) ==
    /\ alive /\ listening /\ pc[r] = "new"
    /\ \A q \in Reqs : q < r => pc[q] # "new"
    /\ \E i \in Inbound : req' = [req EXCEPT ![r] = i]
    /\ pc' = [pc EXCEPT ![r] = "queued"]
    /\ UNCHANGED << alive, running, res, reqRoute, listener, local, span,
                    registry, snap, sink, calls, life >>

\* ---------------------------------------------------------------- pipeline
\* app.use(express.json()): a body that does not parse is passed to next(err);
\* the stages registered after it are skipped and the error handler answers 400.
JsonParserRejects(r) ==
    /\ alive /\ running = 0 /\ pc[r] = "queued" /\ req[r].badBody
    /\ res' = [res EXCEPT ![r] = send(@, 400)]
    /\ pc' = [pc EXCEPT ![r] = "responded"]
    /\ UNCHANGED << alive, running, req, reqRoute, listener, local, span,
                    registry, snap, sink, calls, life >>

\* app.use(express.json()) lets the request through; the telemetry middleware
\* starts the timer, registers the finish listener and calls next().
Middleware(r) ==
    /\ alive /\ running = 0 /\ pc[r] = "queued" /\ ~req[r].badBody
    /\ listener' = [listener EXCEPT ![r] = TRUE]

\* The router: a GET of a registered path is dispatched to its handler, with
\* req.route set.
\* Routing is not strict: a route pattern also matches the path with a
\* trailing slash.
Canonical(path) == IF path = "/error/" THEN "/error" ELSE path

Matches(i) == i.method = "GET" /\ Canonical(i.path) \in Routes

Dispatch(r, route) ==
    /\ Matches(req[r]) /\ Canonical(req[r].path) = route
    /\ reqRoute' = [reqRoute EXCEPT ![r] = route]

\* The router: OPTIONS of a registered path is answered 200 with Allow.
OptionsReply(r) ==
    /\ Middleware(r)
    /\ req[r].method = "OPTIONS" /\ Canonical(req[r].path) \in Routes
    /\ res' = [res EXCEPT ![r] = send(@, 200)]
    /\ pc' = [pc EXCEPT ![r] = "responded"]
    /\ UNCHANGED << alive, running, req, reqRoute, local, span, registry, snap,
                    sink, calls, life >>

\* The router: nothing matched, the final handler answers 404.
NotFound(r) ==
    /\ Middleware(r)
    /\ ~Matches(req[r])
    /\ ~(req[r].method = "OPTIONS" /\ Canonical(req[r].path) \in Routes)
    /\ res' = [res EXCEPT ![r] = send(@, 404)]
    /\ pc' = [pc EXCEPT ![r] = "responded"]
    /\ UNCHANGED << alive, running, req, reqRoute, local, span, registry, snap,
                    sink, calls, life >>

\* ------------------------------------------------------------ GET /
\* startActiveSpan('root_route'); res.json(...); setStatus(OK); span.end()
RootRoute(r) ==
    /\ Middleware(r) /\ Dispatch(r, "/")
    /\ res' = [res EXCEPT ![r] = send(@, 200)]
    /\ span' = [span EXCEPT ![r] = end(setStatus(startSpan(@), "OK", ""))]
    /\ pc' = [pc EXCEPT ![r] = "responded"]
    /\ UNCHANGED << alive, running, req, local, registry, snap, sink, calls,
                    life >>

\* --------------------------------------------------------- GET /work
\* WorkRoute with a fault: the delay is a busy wait that keeps the thread.
WorkRouteBusyWait(r) ==
    /\ Middleware(r) /\ Dispatch(r, "/work")
    /\ span' = [span EXCEPT ![r] = startSpan(@)]
    /\ pc' = [pc EXCEPT ![r] = "sleeping"]
    /\ running' = r
    /\ UNCHANGED << alive, req, res, local, registry, snap, sink, calls,
                    life >>

\* startActiveSpan('work_route'); await new Promise(r => setTimeout(r, ms)):
\* the handler is suspended until its timer fires.
WorkRoute(r) ==
    /\ Middleware(r) /\ Dispatch(r, "/work")
    /\ span' = [span EXCEPT ![r] = startSpan(@)]
    /\ pc' = [pc EXCEPT ![r] = "sleeping"]
    /\ UNCHANGED << alive, running, req, res, local, registry, snap, sink, calls,
                    life >>

\* WorkFails with a fault: no return after the 500, the success body is sent
\* as well.
WorkFailsFallsThrough(r) ==
    /\ alive /\ running = 0 /\ pc[r] = "sleeping"
    /\ span' = [span EXCEPT ![r] = end(end(setStatus(@, "ERROR", "Random failure")))]
    /\ res' = [res EXCEPT ![r] = send(send(@, 500), 200)]
    /\ pc' = [pc EXCEPT ![r] = "responded"]
    /\ UNCHANGED << alive, running, req, reqRoute, listener, local, registry,
                    snap, sink, calls, life >>

\* The timer fires, Math.random() < 0.1: setStatus(ERROR, 'Random failure');
\* span.end(); return res.status(500).json(...); finally span.end()
WorkFails(r) ==
    /\ alive /\ running = 0 /\ pc[r] = "sleeping"
    /\ span' = [span EXCEPT ![r] = end(end(setStatus(@, "ERROR", "Random failure")))]
    /\ res' = [res EXCEPT ![r] = send(@, 500)]
    /\ pc' = [pc EXCEPT ![r] = "responded"]
    /\ UNCHANGED << alive, running, req, reqRoute, listener, local, registry,
                    snap, sink, calls, life >>

\* The timer fires, Math.random() >= 0.1: res.json(...); setStatus(OK);
\* finally span.end()
WorkSucceeds(r) ==
    /\ alive /\ running = 0 /\ pc[r] = "sleeping"
    /\ res' = [res EXCEPT ![r] = send(@, 200)]
    /\ span' = [span EXCEPT ![r] = end(setStatus(@, "OK", ""))]
    /\ pc' = [pc EXCEPT ![r] = "responded"]
    /\ UNCHANGED << alive, running, req, reqRoute, listener, local, registry,
                    snap, sink, calls, life >>

\* ErrorRoute with a fault: the span is ended before its status is set.
ErrorRouteEndsFirst(r) ==
    /\ Middleware(r) /\ Dispatch(r, "/error")
    /\ res' = [res EXCEPT ![r] = send(@, 500)]
    /\ span' = [span EXCEPT ![r] = setStatus(end(startSpan(@)), "ERROR", "Forced error")]
    /\ pc' = [pc EXCEPT ![r] = "responded"]
    /\ UNCHANGED << alive, running, req, local, registry, snap, sink, calls,
                    life >>

\* -------------------------------------------------------- GET /error
\* startActiveSpan('error_route'); logger.error(...);
\* res.status(500).json(...); setStatus(ERROR, 'Forced error'); span.end()
ErrorRoute(r) ==
    /\ Middleware(r) /\ Dispatch(r, "/error")
    /\ res' = [res EXCEPT ![r] = send(@, 500)]
    /\ span' = [span EXCEPT ![r] = end(setStatus(startSpan(@), "ERROR", "Forced error"))]
    /\ pc' = [pc EXCEPT ![r] = "responded"]
    /\ UNCHANGED << alive, running, req, local, registry, snap, sink, calls,
                    life >>

\* ------------------------------------------------------ GET /metrics
\* Snapshot with a fault: the error counter is left out of the output.
SnapshotOmitsErrors ==
    [taken |-> TRUE, requests |-> httpRequests, duration |-> httpDuration,
     success |-> successRequests, error |-> EmptyMap]

\* register.metrics() reads the registry
Snapshot ==
    [taken |-> TRUE, requests |-> httpRequests, duration |-> httpDuration,
     success |-> successRequests, error |-> errorRequests]

\* res.set('Content-Type', ...); await register.metrics()
MetricsRoute(r) ==
    /\ Middleware(r) /\ Dispatch(r, "/metrics")
    /\ snap' = [snap EXCEPT ![r] = Snapshot]
    /\ pc' = [pc EXCEPT ![r] = "metricsWait"]
    /\ UNCHANGED << alive, running, req, res, local, span, registry, sink, calls,
                    life >>

\* res.end(<the snapshot>)
MetricsSend(r) ==
    /\ alive /\ running = 0 /\ pc[r] = "metricsWait"
    /\ res' = [res EXCEPT ![r] = send(@, res[r].statusCode)]
    /\ pc' = [pc EXCEPT ![r] = "responded"]
    /\ UNCHANGED << alive, running, req, reqRoute, listener, local, span,
                    registry, snap, sink, calls, life >>

\* ------------------------------------------------- the finish callback
\* The response has been handed to the socket and 'finish' is emitted, on a
\* response nothing listens to.
FinishUnobserved(r) ==
    /\ alive /\ running = 0 /\ pc[r] = "responded" /\ ~listener[r]
    /\ res' = [res EXCEPT ![r].finished = TRUE]
    /\ pc' = [pc EXCEPT ![r] = "done"]
    /\ UNCHANGED << alive, running, req, reqRoute, listener, local, span,
                    registry, snap, sink, calls, life >>

\* Finish with a fault: the listener awaits between the registry update and
\* the log write, releasing the thread.
FinishYields(r) ==
    LET code == res[r].statusCode
        route == RouteLabel(reqRoute[r], req[r].path)
        labels == Labels(req[r].method, route, code)
    IN  /\ alive /\ running = 0 /\ pc[r] = "responded" /\ listener[r]
        /\ res' = [res EXCEPT ![r].finished = TRUE]
        /\ \E delta \in Durations :
              /\ local' = [local EXCEPT ![r] = [delta |-> delta, route |-> route]]
              /\ httpDuration' = observe(httpDuration, labels, delta)
        /\ httpRequests' = inc(httpRequests, labels)
        /\ IF IsSuccess(code)
              THEN /\ successRequests' = inc(successRequests, [route |-> route])
                   /\ UNCHANGED errorRequests
              ELSE /\ errorRequests' = inc(errorRequests, [route |-> route])
                   /\ UNCHANGED successRequests
        /\ calls' = [calls EXCEPT ![r].inc = @ + 1, ![r].observe = @ + 1,
                              ![r].success = @ + (IF IsSuccess(code) THEN 1 ELSE 0),
                              ![r].error = @ + (IF IsSuccess(code) THEN 0 ELSE 1)]
        /\ pc' = [pc EXCEPT ![r] = "logging"]
        /\ UNCHANGED << alive, running, req, reqRoute, listener, span, snap, sink,
                    life >>

\* 'finish' is emitted and the listener runs: delta, route, labels;
\* httpRequests.inc(labels); httpDuration.observe(labels, delta);
\* successRequests.inc({ route }) or errorRequests.inc({ route })
Finish(r) ==
    LET code == res[r].statusCode
        route == RouteLabel(reqRoute[r], req[r].path)
        labels == Labels(req[r].method, route, code)
    IN  /\ alive /\ running = 0 /\ pc[r] = "responded" /\ listener[r]
        /\ res' = [res EXCEPT ![r].finished = TRUE]
        /\ \E delta \in Durations :
              /\ local' = [local EXCEPT ![r] = [delta |-> delta, route |-> route]]
              /\ httpDuration' = observe(httpDuration, labels, delta)
        /\ httpRequests' = inc(httpRequests, labels)
        /\ IF IsSuccess(code)
              THEN /\ successRequests' = inc(successRequests, [route |-> route])
                   /\ UNCHANGED errorRequests
              ELSE /\ errorRequests' = inc(errorRequests, [route |-> route])
                   /\ UNCHANGED successRequests
        /\ calls' = [calls EXCEPT ![r].inc = @ + 1, ![r].observe = @ + 1,
                              ![r].success = @ + (IF IsSuccess(code) THEN 1 ELSE 0),
                              ![r].error = @ + (IF IsSuccess(code) THEN 0 ELSE 1)]
        /\ pc' = [pc EXCEPT ![r] = "logging"]
        /\ running' = r
        /\ UNCHANGED << alive, req, reqRoute, listener, span, snap, sink,
                    life >>

\* The listener runs after the wall clock was set back between the middleware
\* and 'finish': Date.now() - start is negative, and is observed as it is.
FinishSkewed(r) ==
    LET code == res[r].statusCode
        route == RouteLabel(reqRoute[r], req[r].path)
        labels == Labels(req[r].method, route, code)
    IN  /\ alive /\ running = 0 /\ pc[r] = "responded" /\ listener[r]
        /\ res' = [res EXCEPT ![r].finished = TRUE]
        /\ \E delta \in {0 - d : d \in Durations \ {0}} :
              /\ local' = [local EXCEPT ![r] = [delta |-> delta, route |-> route]]
              /\ httpDuration' = observe(httpDuration, labels, delta)
        /\ httpRequests' = inc(httpRequests, labels)
        /\ IF IsSuccess(code)
              THEN /\ successRequests' = inc(successRequests, [route |-> route])
                   /\ UNCHANGED errorRequests
              ELSE /\ errorRequests' = inc(errorRequests, [route |-> route])
                   /\ UNCHANGED successRequests
        /\ calls' = [calls EXCEPT ![r].inc = @ + 1, ![r].observe = @ + 1,
                              ![r].success = @ + (IF IsSuccess(code) THEN 1 ELSE 0),
                              ![r].error = @ + (IF IsSuccess(code) THEN 0 ELSE 1)]
        /\ pc' = [pc EXCEPT ![r] = "logging"]
        /\ running' = r
        /\ UNCHANGED << alive, req, reqRoute, listener, span, snap, sink,
                    life >>

\* FinishLog with a fault: only the records of successful requests are written.
FinishLogDropsErrors(r) ==
    LET entry == LogEntry(req[r].method, local[r].route, res[r].statusCode,
                      local[r].delta)
    IN  /\ alive /\ running = r /\ pc[r] = "logging"
        /\ logStream' = IF IsSuccess(res[r].statusCode)
                           THEN logToFile(logStream, entry) ELSE logStream
        /\ calls' = [calls EXCEPT ![r].log = @ + 1]
        /\ pc' = [pc EXCEPT ![r] = "done"]
        /\ running' = 0
        /\ UNCHANGED << alive, req, res, reqRoute, listener, local, span, registry,
                    snap, logFile, life >>

\* ... the listener goes on: logEntry; logger.info(logEntry, ...);
\* logToFile(logEntry); the callback returns
FinishLog(r) ==
    LET entry == LogEntry(req[r].method, local[r].route, res[r].statusCode,
                      local[r].delta)
    IN  /\ alive /\ running = r /\ pc[r] = "logging"
        /\ logStream' = logToFile(logStream, entry)
        /\ calls' = [calls EXCEPT ![r].log = @ + 1]
        /\ pc' = [pc EXCEPT ![r] = "done"]
        /\ running' = 0
        /\ UNCHANGED << alive, req, res, reqRoute, listener, local, span, registry,
                    snap, logFile, life >>

\* The write stream appends its oldest chunk to app.log.
StreamWrite ==
    /\ alive /\ logStream # << >>
    /\ logFile' = logFile \o Head(logStream)
    /\ logStream' = Tail(logStream)
    /\ UNCHANGED << alive, running, req, pc, res, reqRoute, listener, local,
                    span, registry, snap, calls, life >>

\* ----------------------------------------------------------------- faults
\* The append fails: the stream emits 'error'; logStream has no 'error'
\* listener, so the event is thrown as an uncaught exception and the process
\* terminates.
StreamError ==
    /\ alive /\ running = 0 /\ logStream # << >>
    /\ alive' = FALSE
    /\ UNCHANGED << running, req, pc, res, reqRoute, listener, local, span,
                    registry, snap, sink, calls, life >>

\* GET /: res.json throws after startActiveSpan; nothing catches it, the
\* statements after it are skipped and the handler's promise rejects.
RootRouteThrows(r) ==
    /\ Middleware(r) /\ Dispatch(r, "/")
    /\ span' = [span EXCEPT ![r] = startSpan(@)]
    /\ pc' = [pc EXCEPT ![r] = "faulted"]
    /\ UNCHANGED << alive, running, req, res, local, registry, snap, sink, calls,
                    life >>

\* GET /error: res.status(500).json throws after startActiveSpan; nothing
\* catches it.
ErrorRouteThrows(r) ==
    /\ Middleware(r) /\ Dispatch(r, "/error")
    /\ span' = [span EXCEPT ![r] = startSpan(@)]
    /\ pc' = [pc EXCEPT ![r] = "faulted"]
    /\ UNCHANGED << alive, running, req, res, local, registry, snap, sink, calls,
                    life >>

\* GET /work, success branch: res.json throws; catch (err) setStatus(ERROR,
\* err.message); throw err; finally span.end()
WorkSucceedsThrows(r) ==
    /\ alive /\ running = 0 /\ pc[r] = "sleeping"
    /\ span' = [span EXCEPT ![r] = end(setStatus(@, "ERROR", "err.message"))]
    /\ pc' = [pc EXCEPT ![r] = "faulted"]
    /\ UNCHANGED << alive, running, req, res, reqRoute, listener, local,
                    registry, snap, sink, calls, life >>

\* GET /work, failure branch: setStatus(ERROR, 'Random failure'); span.end();
\* res.status(500).json throws; catch (err) setStatus(ERROR, err.message);
\* throw err; finally span.end()
WorkFailsThrows(r) ==
    /\ alive /\ running = 0 /\ pc[r] = "sleeping"
    /\ span' = [span EXCEPT ![r] =
                   end(setStatus(end(setStatus(@, "ERROR", "Random failure")),
                             "ERROR", "err.message"))]
    /\ pc' = [pc EXCEPT ![r] = "faulted"]
    /\ UNCHANGED << alive, running, req, res, reqRoute, listener, local,
                    registry, snap, sink, calls, life >>

\* ---------------------------------------------------- start-up, shutdown
\* The state before the module is evaluated.
InitBoot ==
    /\ alive = TRUE
    /\ running = 0
    /\ req = [r \in Reqs |-> NoReq]
    /\ pc = [r \in Reqs |-> "new"]
    /\ res = [r \in Reqs |-> NoRes]
    /\ reqRoute = [r \in Reqs |-> ""]
    /\ listener = [r \in Reqs |-> FALSE]
    /\ local = [r \in Reqs |-> [delta |-> 0, route |-> ""]]
    /\ span = [r \in Reqs |-> NoSpan]
    /\ httpRequests = EmptyMap
    /\ httpDuration = EmptyMap
    /\ successRequests = EmptyMap
    /\ errorRequests = EmptyMap
    /\ snap = [r \in Reqs |-> NoSnap]
    /\ logStream = << >>
    /\ logFile = << >>
    /\ calls = [r \in Reqs |-> NoCalls]
    /\ sdk = "unloaded"
    /\ listening = FALSE
    /\ sigterm = "none"
    /\ shutdown = "uncalled"
    /\ console = {}

\* The module is evaluated: the async function calls sdk.start() and is
\* suspended at the await, the rest of the module runs, app.listen(port).
Load ==
    /\ alive /\ sdk = "unloaded"
    /\ sdk' = "starting"
    /\ listening' = TRUE
    /\ UNCHANGED << alive, running, req, pc, res, reqRoute, listener, local, span,
                    registry, snap, sink, calls, sigterm, shutdown,
                    console >>

\* await sdk.start() returns: console.log('OpenTelemetry started')
SdkStarted ==
    /\ alive /\ running = 0 /\ sdk = "starting"
    /\ sdk' = "started"
    /\ console' = console \cup {"OpenTelemetry started"}
    /\ UNCHANGED << alive, running, req, pc, res, reqRoute, listener, local, span,
                    registry, snap, sink, calls, listening, sigterm,
                    shutdown >>

\* SdkStartFails with a fault: no try/catch around the await, the rejection is
\* unhandled and terminates the process.
SdkStartFailsUncaught ==
    /\ alive /\ running = 0 /\ sdk = "starting"
    /\ sdk' = "failed"
    /\ alive' = FALSE
    /\ UNCHANGED << running, req, pc, res, reqRoute, listener, local, span,
                    registry, snap, sink, calls, listening, sigterm,
                    shutdown, console >>

\* await sdk.start() throws: catch (err)
\* console.error('OpenTelemetry failed to start', err)
SdkStartFails ==
    /\ alive /\ running = 0 /\ sdk = "starting"
    /\ sdk' = "failed"
    /\ console' = console \cup {"OpenTelemetry failed to start"}
    /\ UNCHANGED << alive, running, req, pc, res, reqRoute, listener, local, span,
                    registry, snap, sink, calls, listening, sigterm,
                    shutdown >>

\* What the promise of sdk.shutdown() can do.
ShutdownOutcomes == {"resolves", "rejects", "never"}

\* process.on('SIGTERM'): console.log('Shutting down...'); sdk.shutdown() is
\* called and awaited.
Sigterm ==
    /\ alive /\ running = 0 /\ sigterm = "none"
    /\ sigterm' = "shutting"
    /\ \E o \in ShutdownOutcomes : shutdown' = o
    /\ console' = console \cup {"Shutting down..."}
    /\ UNCHANGED << alive, running, req, pc, res, reqRoute, listener, local, span,
                    registry, snap, sink, calls, sdk, listening >>

\* await sdk.shutdown() returns; process.exit(0)
ShutdownResolves ==
    /\ alive /\ running = 0 /\ sigterm = "shutting" /\ shutdown = "resolves"
    /\ sigterm' = "exited"
    /\ alive' = FALSE
    /\ UNCHANGED << running, req, pc, res, reqRoute, listener, local, span,
                    registry, snap, sink, calls, sdk, listening, shutdown,
                    console >>

\* await sdk.shutdown() throws: catch (err)
\* console.error('Error shutting down OpenTelemetry', err); process.exit(0)
ShutdownRejects ==
    /\ alive /\ running = 0 /\ sigterm = "shutting" /\ shutdown = "rejects"
    /\ sigterm' = "exited"
    /\ alive' = FALSE
    /\ console' = console \cup {"Error shutting down OpenTelemetry"}
    /\ UNCHANGED << running, req, pc, res, reqRoute, listener, local, span,
                    registry, snap, sink, calls, sdk, listening,
                    shutdown >>

\* -------------------------------------------------------- specifications
Step(r) ==
    \/ Arrive(r) \/ JsonParserRejects(r) \/ OptionsReply(r) \/ NotFound(r)
    \/ RootRoute(r) \/ WorkRoute(r) \/ WorkFails(r) \/ WorkSucceeds(r)
    \/ ErrorRoute(r) \/ MetricsRoute(r) \/ MetricsSend(r)
    \/ FinishUnobserved(r) \/ Finish(r) \/ FinishLog(r)

Fault(r) ==
    \/ RootRouteThrows(r) \/ ErrorRouteThrows(r)
    \/ WorkSucceedsThrows(r) \/ WorkFailsThrows(r)

Next == (\E r \in Reqs : Step(r)) \/ StreamWrite

Spec == Init /\ [][Next]_vars

\* The same program in an environment where the append to app.log can fail
\* and where sending a response can throw.
NextFault == Next \/ (\E r \in Reqs : Fault(r)) \/ StreamError

SpecFault == Init /\ [][NextFault]_vars

\* The program from the evaluation of the module on: the start of the SDK
\* completes or fails while requests are served.
NextBoot == Next \/ Load \/ SdkStarted \/ SdkStartFails

SpecBoot == InitBoot /\ [][NextBoot]_vars

\* The running program receiving SIGTERM.
Exit == ShutdownResolves \/ ShutdownRejects

NextTerm == Next \/ Sigterm \/ ShutdownResolves \/ ShutdownRejects

SpecTerm == Init /\ [][NextTerm]_vars

\* The executions in which the wall clock may be set back.
NextSkew == Next \/ \E r \in Reqs : FinishSkewed(r)

SpecSkew == Init /\ [][NextSkew]_vars

\* ------------------------------------------------------------------ claims
Count(f, k) == IF k \in DOMAIN f THEN f[k] ELSE 0

\* The handling of r is over: its response finished and no callback of it is
\* left to run.
Done(r) == pc[r] = "done"

GetOf(p) == [method |-> "GET", path |-> p, badBody |-> FALSE]

\* C1: every request whose response has finished was observed exactly once:
\* one counter increment, one histogram observation, one log line written,
\* and exactly one of success / error incremented, success iff
\* 200 <= status < 400.
C1_FinishedObservedExactlyOnce ==
    \A r \in Reqs :
        Done(r) =>
            /\ calls[r].inc = 1 /\ calls[r].observe = 1 /\ calls[r].log = 1
            /\ calls[r].success + calls[r].error = 1
            /\ calls[r].success = 1 <=>
                   (res[r].statusCode >= 200 /\ res[r].statusCode < 400)

\* C2: once the /work handler has returned, span.end() has been called exactly
\* once on its span, on the 500 branch as on the 200 branch.
C2_WorkSpanEndedOnce ==
    \A r \in Reqs :
        (reqRoute[r] = "/work" /\ res[r].sent > 0) =>
            (span[r].started = 1 /\ span[r].ended = 1)

\* C3: when an exception propagates out of the body of /, /work or /error
\* after the span was started, the span has ERROR status and was ended
\* exactly once.
C3_SpanEndedOnException ==
    \A r \in Reqs :
        (pc[r] = "faulted" /\ reqRoute[r] \in SpanRoutes) =>
            (span[r].started = 1 /\ span[r].ended = 1 /\ span[r].endCode = "ERROR")

\* C4: the telemetry stage runs for every inbound request: a response that
\* finished had the finish listener registered, and once its handling is over
\* it was recorded once, a request no route matched under its raw path.
C4_TelemetryRunsForEveryRequest ==
    \A r \in Reqs :
        /\ res[r].finished => listener[r]
        /\ Done(r) =>
               /\ calls[r].inc = 1
               /\ reqRoute[r] = "" => local[r].route = req[r].path

\* C5: a failure of the append to app.log never terminates the process.
C5_SinkFailureNeverTerminates == alive

\* The chunks handed to logStream.write, in order: those appended to app.log
\* and those the stream still holds.
RECURSIVE Flatten(_)
Flatten(chunks) ==
    IF chunks = << >> THEN << >> ELSE Head(chunks) \o Flatten(Tail(chunks))

Written == logFile \o Flatten(logStream)

IsRootLine(t) ==
    /\ t.k = "json"
    /\ t.entry.method = "GET" /\ t.entry.route = "/" /\ t.entry.status = 200

RootLabels == [method |-> "GET", route |-> "/", status_code |-> "200"]

\* C6: under every interleaving, the request counter of (GET, "/", 200) is
\* the number of GET / requests whose finish callback has updated the
\* registry, and the log lines with method GET, route "/", status 200 written
\* to the log stream are as many as the GET / requests whose handling is
\* over: with all N over, both are N.
C6_RootRequestsCountedOnce ==
    /\ Count(httpRequests, RootLabels) =
           Cardinality({r \in Reqs : req[r] = GetOf("/") /\ calls[r].inc > 0})
    /\ Len(SelectSeq(Written, IsRootLine)) =
           Cardinality({r \in Reqs : req[r] = GetOf("/") /\ Done(r)})
    /\ \A r \in Reqs : (req[r] = GetOf("/") /\ Done(r)) => calls[r].inc > 0

C6_Witness ==
    /\ \A r \in Reqs : req[r] = GetOf("/") /\ Done(r)
    /\ Count(httpRequests, RootLabels) = MaxReq
    /\ Len(SelectSeq(Written, IsRootLine)) = MaxReq

\* C7 as stated: every GET /error responds 500 and increments
\* errorRequests{route="/error"} by 1, and successRequests{route="/error"} is 0
\* in every reachable state.
C7_NoSuccessForErrorRoute ==
    /\ \A r \in Reqs :
           (req[r] = GetOf("/error") /\ Done(r)) =>
               (res[r].statusCode = 500 /\ calls[r].error = 1)
    /\ Count(successRequests, [route |-> "/error"]) = 0

\* The recorded requests whose route label is "/error".
RecordedAsError(r) == calls[r].inc > 0 /\ local[r].route = "/error"

\* C7 amended: every GET /error responds 500, increments
\* errorRequests{route="/error"} by exactly 1 and never successRequests;
\* errorRequests{route="/error"} and successRequests{route="/error"} count the
\* recorded requests labelled /error answered outside and inside 200..399, and
\* those counted as success are never GET requests.
C7_GetErrorCountsAsError ==
    /\ \A r \in Reqs :
           (req[r] = GetOf("/error") /\ Done(r)) =>
               /\ res[r].statusCode = 500
               /\ calls[r].error = 1 /\ calls[r].success = 0
    /\ Count(errorRequests, [route |-> "/error"]) =
           Cardinality({r \in Reqs : RecordedAsError(r)
                                      /\ ~(res[r].statusCode \in 200..399)})
    /\ Count(successRequests, [route |-> "/error"]) =
           Cardinality({r \in Reqs : RecordedAsError(r) /\ req[r].method # "GET"
                                      /\ res[r].statusCode \in 200..399})

C7_Witness ==
    /\ \A r \in Reqs : req[r] = GetOf("/error") /\ Done(r)
    /\ Count(errorRequests, [route |-> "/error"]) = MaxReq

\* C8: the registry update of a request never precedes the finish of its
\* response, the log write never precedes the registry update, and from the
\* registry update to the log write the request's callback holds the thread:
\* the next step is its log write, the stream's own append or the arrival of
\* a request, never a callback of another request.
C8_StagesInv ==
    \A r \in Reqs :
        /\ calls[r].inc > 0 => (listener[r] /\ res[r].sent > 0 /\ res[r].finished)
        /\ calls[r].log > 0 => calls[r].inc > 0
        /\ pc[r] = "logging" => (running = r /\ calls[r].inc = 1 /\ calls[r].log = 0)
        /\ Done(r) /\ listener[r] => calls[r].log = 1

C8_StagesStep ==
    \A r \in Reqs :
        pc[r] = "logging" =>
            \/ pc' = [pc EXCEPT ![r] = "done"] /\ calls'[r].log = 1
            \/ /\ \A q \in Reqs : pc'[q] = pc[q] \/ (pc[q] = "new" /\ pc'[q] = "queued")
               /\ calls' = calls /\ registry' = registry /\ res' = res

C8_StagesInOrder == [] C8_StagesInv /\ [][C8_StagesStep]_vars

C8_Witness ==
    \E r, q \in Reqs :
        r # q /\ pc[r] = "logging" /\ pc[q] = "responded" /\ listener[q]

\* The record a finished callback logged for r.
EntryOf(r) ==
    LogEntry(req[r].method, local[r].route, res[r].statusCode, local[r].delta)

\* C9: app.log is always a sequence of complete lines, each a timestamp, the
\* complete JSON record of one request whose callback wrote it, and a
\* newline: no line is partial and no two records share a line.
C9_LogIsCompleteLines ==
    /\ Len(logFile) % 3 = 0
    /\ \A i \in 1..Len(logFile) :
           /\ i % 3 = 1 => logFile[i].k = "ts"
           /\ i % 3 = 2 =>
                  /\ logFile[i].k = "json"
                  /\ \E r \in Reqs : Done(r) /\ logFile[i].entry = EntryOf(r)
           /\ i % 3 = 0 => logFile[i].k = "nl"

C9_Witness ==
    /\ Len(logFile) = 3 * MaxReq
    /\ \E i, j \in 1..Len(logFile) :
           /\ logFile[i].k = "json" /\ logFile[j].k = "json"
           /\ logFile[i].entry.route # logFile[j].entry.route

\* C10: a request suspended in the delay of /work does not hold the thread:
\* while it sleeps, every other request in flight has its next step enabled
\* as soon as the running callback, if any, returns.
C10_DelayDoesNotBlock ==
    \A r \in Reqs :
        (alive /\ pc[r] = "sleeping") =>
            /\ running # r
            /\ running # 0 => ENABLED Step(running)
            /\ \A q \in Reqs :
                   (running = 0 /\ q # r /\ pc[q] \notin {"new", "done", "faulted"})
                       => ENABLED Step(q)

\* While r sleeps, the finish callback of another request holds the thread:
\* it has recorded its metrics and is about to write its log record.
C10_Witness ==
    \E r, q \in Reqs :
        /\ pc[r] = "sleeping" /\ q # r
        /\ running = q /\ pc[q] = "logging" /\ calls[q].inc = 1

\* C11: after SIGTERM the handler attempts the exporter shutdown and the
\* process then exits, whether the shutdown succeeds, fails (the failure is
\* logged) or does not complete: while the handler waits, the exit is the
\* next thing the idle loop can do.
C11_SigtermAlwaysExits ==
    /\ sigterm # "none" => (shutdown # "uncalled" /\ "Shutting down..." \in console)
    /\ sigterm = "exited" =>
           /\ ~alive
           /\ shutdown = "rejects" => "Error shutting down OpenTelemetry" \in console
    /\ (sigterm = "shutting" /\ running = 0) => ENABLED Exit

\* C12: the server listens once the module is evaluated, whatever the start
\* of the SDK does; a failed start is logged and does not terminate the
\* process; while the start is pending or has failed every request in flight
\* has its next step enabled on the idle loop, and a request the middleware
\* saw is recorded once, in the registry and in the log.
C12_ServerStartsWithoutTracing ==
    /\ sdk # "unloaded" => listening
    /\ sdk = "failed" => (alive /\ "OpenTelemetry failed to start" \in console)
    /\ \A r \in Reqs :
           /\ (sdk \in {"starting", "failed"} /\ running = 0
                   /\ pc[r] \notin {"new", "done", "faulted"}) => ENABLED Step(r)
           /\ (Done(r) /\ listener[r]) =>
                  (calls[r].inc = 1 /\ calls[r].observe = 1 /\ calls[r].log = 1)

C12_Witness ==
    /\ sdk = "failed"
    /\ \A r \in Reqs : Done(r) /\ listener[r] /\ calls[r].log = 1

\* The requests the finish listener has recorded so far, and what it recorded
\* of each.
Recorded == {q \in Reqs : calls[q].inc > 0}

LabelsOf(q) == Labels(req[q].method, local[q].route, res[q].statusCode)

RouteOf(q) == [route |-> local[q].route]

Succeeded == {q \in Recorded : IsSuccess(res[q].statusCode)}

\* The counter has one series for each label set in the image of the requests
\* in qs, holding the number of those requests with that label set.
CounterIs(counter, qs, Lab(_)) ==
    /\ DOMAIN counter = {Lab(q) : q \in qs}
    /\ \A l \in DOMAIN counter :
           counter[l] = Cardinality({q \in qs : Lab(q) = l})

\* The same of the histogram's series and their observation counts.
HistogramIs(hist, qs) ==
    /\ DOMAIN hist = {LabelsOf(q) : q \in qs}
    /\ \A l \in DOMAIN hist :
           LET n == Cardinality({q \in qs : LabelsOf(q) = l})
           IN  /\ hist[l].count = n
               /\ hist[l].buckets[Len(Buckets)] = n

SnapExact(sn) ==
    /\ sn.taken
    /\ CounterIs(sn.requests, Recorded, LabelsOf)
    /\ HistogramIs(sn.duration, Recorded)
    /\ CounterIs(sn.success, Succeeded, RouteOf)
    /\ CounterIs(sn.error, Recorded \ Succeeded, RouteOf)

\* C13 as stated: the success counter and the error counter each report every
\* route recorded so far, with the number of recorded requests of that route.
C13_OutcomeCountersReportEveryRoute ==
    [][\A r \in Reqs :
           snap'[r] # snap[r] =>
               /\ CounterIs(snap'[r].success, Recorded, RouteOf)
               /\ CounterIs(snap'[r].error, Recorded, RouteOf)]_vars

\* C13: the snapshot a GET /metrics takes holds the four instruments; the
\* request counter and the histogram have exactly the (method, route,
\* status_code) tuples recorded so far, each with the number of recorded
\* requests of that tuple; the success counter has exactly the routes of the
\* recorded requests with 200 <= status < 400 and the error counter those of
\* the other recorded requests, each with the number of such requests.
C13_SnapshotIsExact ==
    [][\A r \in Reqs : snap'[r] # snap[r] => SnapExact(snap'[r])]_vars

\* A scrape answered with a snapshot that reports an earlier failed request.
C13_Witness ==
    \E r \in Reqs :
        /\ Done(r) /\ snap[r].taken /\ res[r].sent = 1
        /\ snap[r].requests # EmptyMap /\ snap[r].error # EmptyMap
        /\ snap[r].success = EmptyMap

\* Every series of old is a series of new with a value at least as large.
CounterGrows(old, new) ==
    \A l \in DOMAIN old : l \in DOMAIN new /\ new[l] >= old[l]

HistogramGrows(old, new) ==
    \A l \in DOMAIN old :
        /\ l \in DOMAIN new
        /\ \A i \in 1..Len(Buckets) : new[l].buckets[i] >= old[l].buckets[i]
        /\ new[l].sum >= old[l].sum
        /\ new[l].count >= old[l].count

SnapGrows(old, new) ==
    /\ CounterGrows(old.requests, new.requests)
    /\ HistogramGrows(old.duration, new.duration)
    /\ CounterGrows(old.success, new.success)
    /\ CounterGrows(old.error, new.error)

Resolved(i) ==
    IF i.method = "GET" /\ \E p \in Routes : Canonical(i.path) = p
        THEN CHOOSE p \in Routes : Canonical(i.path) = p
        ELSE IF i.path # "" THEN i.path ELSE "unknown"

ResolvedLabels(q) == Labels(req[q].method, Resolved(req[q]), res[q].statusCode)

\* C15: every recorded request is recorded under the resolved label, the same
\* in the request counter, the histogram, the success or error counter and its
\* log record, and the registry holds no series under any other label.
C15_RouteLabelResolved ==
    /\ \A q \in Recorded :
           /\ ResolvedLabels(q) \in DOMAIN httpRequests \cap DOMAIN httpDuration
           /\ [route |-> Resolved(req[q])] \in
                  DOMAIN (IF IsSuccess(res[q].statusCode) THEN successRequests
                                                          ELSE errorRequests)
           /\ calls[q].log > 0 =>
                  \E n \in 1..Len(Written) :
                      /\ Written[n].k = "json"
                      /\ Written[n].entry = LogEntry(req[q].method, Resolved(req[q]),
                                                     res[q].statusCode, local[q].delta)
    /\ DOMAIN httpRequests \cup DOMAIN httpDuration = {ResolvedLabels(q) : q \in Recorded}
    /\ DOMAIN successRequests \cup DOMAIN errorRequests =
           {[route |-> Resolved(req[q])] : q \in Recorded}
    /\ \A n \in 1..Len(Written) :
           Written[n].k = "json" =>
               Written[n].entry.route \in {Resolved(req[q]) : q \in Recorded}

\* A request matched by a pattern that differs from its path and a request no
\* route matched, both recorded and logged.
C15_Witness ==
    \E q, u \in Reqs :
        /\ req[q] = GetOf("/error/") /\ Done(q) /\ calls[q].log = 1
        /\ [route |-> "/error"] \in DOMAIN errorRequests
        /\ req[u] = GetOf("/nope") /\ Done(u) /\ calls[u].log = 1
        /\ [route |-> "/nope"] \in DOMAIN errorRequests

\* C16: once / , /work or /error has sent its response, the span of the
\* request was started once and ended, its status is the one it had when it
\* was first ended, and it agrees with the response: ERROR with the route's
\* message iff the status code is 500, OK iff it is 200.
C16_SpanStatusAgreesWithResponse ==
    \A r \in Reqs :
        (reqRoute[r] \in SpanRoutes /\ res[r].sent > 0) =>
            /\ span[r].started = 1 /\ span[r].ended >= 1
            /\ span[r].endCode = span[r].code
            /\ res[r].statusCode \in {200, 500}
            /\ span[r].code = "ERROR" <=> res[r].statusCode = 500
            /\ span[r].code = "OK" <=> res[r].statusCode = 200
            /\ span[r].code = "ERROR" =>
                   span[r].message = (IF reqRoute[r] = "/work" THEN "Random failure"
                                                               ELSE "Forced error")

\* Two requests with their responses finished: /work on its failure branch
\* and /error.
C16_Witness ==
    \E r, q \in Reqs :
        /\ reqRoute[r] = "/work" /\ Done(r) /\ res[r].statusCode = 500
        /\ span[r].message = "Random failure"
        /\ reqRoute[q] = "/error" /\ Done(q) /\ span[q].message = "Forced error"

RECURSIVE Sum(_, _)
\* The sum of f over the set S of its arguments.
Sum(f, S) ==
    IF S = {} THEN 0
    ELSE LET x == CHOOSE y \in S : TRUE IN f[x] + Sum(f, S \ {x})

\* Every value a route label can take.
RouteValues == {i.path : i \in Inbound} \cup Routes \cup {"unknown"}

OfRoute(f, rt) == {l \in DOMAIN f : l.route = rt}

\* The log records handed to the log stream for the route rt.
LogRecords(rt) ==
    {n \in 1..Len(Written) : Written[n].k = "json" /\ Written[n].entry.route = rt}

\* C17: between callbacks, for every route label, the request counter summed
\* over the methods and status codes of the route equals the success count
\* plus the error count of the route, the histogram's observation count summed
\* likewise, and the number of log records of the route.
C17_Conservation ==
    running = 0 =>
        \A rt \in RouteValues :
            LET n == Sum(httpRequests, OfRoute(httpRequests, rt))
            IN  /\ n = Count(successRequests, [route |-> rt])
                         + Count(errorRequests, [route |-> rt])
                /\ n = Sum([l \in DOMAIN httpDuration |-> httpDuration[l].count],
                           OfRoute(httpDuration, rt))
                /\ n = Cardinality(LogRecords(rt))

\* The route label /error recorded twice under two label tuples, once as an
\* error and once as a success.
C17_Witness ==
    /\ running = 0
    /\ Cardinality(OfRoute(httpRequests, "/error")) = 2
    /\ Count(successRequests, [route |-> "/error"]) = 1
    /\ Count(errorRequests, [route |-> "/error"]) = 1
    /\ Cardinality(LogRecords("/error")) = 2

\* C18: no request is sent more than one response; a request whose handler
\* (/, /work, /error or /metrics) has returned was sent exactly one; a /work
\* that took the failure branch keeps its 500; the finish listener runs at
\* most once per request.
C18_OneResponsePerRequest ==
    \A r \in Reqs :
        /\ res[r].sent <= 1
        /\ (reqRoute[r] \in Routes /\ pc[r] \in {"responded", "logging", "done"})
               => res[r].sent = 1
        /\ (reqRoute[r] \in Routes /\ pc[r] \in {"sleeping", "metricsWait"})
               => res[r].sent = 0
        /\ (reqRoute[r] = "/work" /\ span[r].message = "Random failure"
                /\ res[r].sent > 0) => res[r].statusCode = 500
        /\ calls[r].inc <= 1 /\ calls[r].log <= 1

\* A /work that failed and a /metrics, both finished and recorded.
C18_Witness ==
    \E r, q \in Reqs :
        /\ reqRoute[r] = "/work" /\ Done(r) /\ res[r].statusCode = 500
        /\ res[r].sent = 1 /\ calls[r].inc = 1
        /\ reqRoute[q] = "/metrics" /\ Done(q) /\ res[q].sent = 1 /\ calls[q].inc = 1

====
